---- MODULE Spec2Model ----
(***************************************************************************)
(* ExpandVec<T> (src/src/lib.rs): a Vec<T> wrapper whose expand_get_mut    *)
(* is documented to always hand out a mutable reference, growing the       *)
(* inner Vec with default values when the index lies beyond it.            *)
(*                                                                         *)
(* T is modelled as a small integer type, T::default() = 0.  Positions are *)
(* 0-based as in the source; the TLA+ sequence `inner` is 1-based, so the  *)
(* element at position i is inner[i + 1].                                  *)
(***************************************************************************)
EXTENDS Integers, Sequences, FiniteSets, TLC

\* ---- bounds of the model ------------------------------------------------
MaxVal == 2      \* T ranges over 0..MaxVal
MaxLen == 3      \* push is explored while len < MaxLen
MaxIdx == 4      \* indices handed to get / get_mut / expand_get_mut

Values  == 0..MaxVal
Indices == 0..MaxIdx

\* <T as Default>::default()
DefaultValue == 0

VARIABLES
    inner,   \* ExpandVec::inner, the wrapped Vec<T>
    pc,      \* "live" | "panicked" (unwrap on None) | "consumed" (raw_vec took self)
    op,      \* the last operation that ran
    arg,     \* its index argument (position written, for a write through a reference)
    val,     \* its value argument (push, write through a reference)
    res,     \* what it returned
    old,     \* inner as it was when the last operation was called
    raw,     \* the Vec returned by raw_vec
    scen     \* progress of the calling sequence
             \* new(); expand_get_mut(i); *r = v; get(i); expand_get_mut(j), j < i

vars == <<inner, pc, op, arg, val, res, old, raw, scen>>

\* ---- results --------------------------------------------------------------
\* Option::None
None == [kind |-> "None", idx |-> -1, val |-> DefaultValue]
\* Option::Some(&inner[i]), and the &mut T of expand_get_mut: the slot and what it holds
Some(i, v) == [kind |-> "Some", idx |-> i, val |-> v]
\* () of push and of an assignment through a reference
Unit == [kind |-> "Unit", idx |-> -1, val |-> DefaultValue]
\* Option::unwrap() on None: the call does not return
Panic == [kind |-> "Panic", idx |-> -1, val |-> DefaultValue]

NoScen == [stage |-> -1, i |-> 0, v |-> DefaultValue]

\* ---- the Vec primitives the source calls ------------------------------------
VecGetOffByOne(v, index) ==
    IF index <= Len(v)
      THEN Some(index, IF index < Len(v) THEN v[index + 1] ELSE DefaultValue)
      ELSE None

\* self.inner.get(index) / self.inner.get_mut(index) with index: usize
VecGet(v, index) ==
    IF index < Len(v) THEN Some(index, v[index + 1]) ELSE None

VecPushFront(v, value) == <<value>> \o v

\* self.inner.push(value)
VecPush(v, value) == Append(v, value)

\* vec![Default::default(); n]
DefaultVec(n) == [k \in 1..n |-> DefaultValue]

ExpandedResize(v, index) ==
    [k \in 1..index |-> IF k <= Len(v) THEN v[k] ELSE DefaultValue]

ExpandedInverted(v, index) ==
    IF index < Len(v) THEN v \o DefaultVec(Len(v) - index) ELSE v

\* lines 62-65: the inner Vec after the conditional extend
Expanded(v, index) ==
    IF index > Len(v)
      THEN LET remaining == index - Len(v)
           IN  v \o DefaultVec(remaining)
      ELSE v

RawVecDropLast(v) == IF v = <<>> THEN v ELSE SubSeq(v, 1, Len(v) - 1)

\* raw_vec: self.inner moved out
RawVec(v) == v

\* ---- initial state: ExpandVec::new() ----------------------------------------
Init ==
    /\ inner = <<>>
    /\ pc = "live"
    /\ op = "new"
    /\ arg = 0
    /\ val = DefaultValue
    /\ res = Unit
    /\ old = <<>>
    /\ raw = <<>>
    /\ scen = [stage |-> 0, i |-> 0, v |-> DefaultValue]

\* ---- operations ---------------------------------------------------------------
\* pub fn push(&mut self, value: T)
Push(value) ==
    /\ pc = "live"
    /\ Len(inner) < MaxLen
    /\ old' = inner
    /\ inner' = VecPush(inner, value)
    /\ op' = "push"
    /\ arg' = 0
    /\ val' = value
    /\ res' = Unit
    /\ scen' = NoScen
    /\ UNCHANGED <<pc, raw>>

\* pub fn get(&self, index) with a position
Get(index) ==
    /\ pc = "live"
    /\ old' = inner
    /\ res' = VecGet(inner, index)
    /\ op' = "get"
    /\ arg' = index
    /\ val' = DefaultValue
    /\ scen' = IF scen.stage = 2 /\ index = scen.i
                 THEN [scen EXCEPT !.stage = 3]
                 ELSE NoScen
    /\ UNCHANGED <<inner, pc, raw>>

\* pub fn get_mut(&mut self, index) with a position
GetMut(index) ==
    /\ pc = "live"
    /\ old' = inner
    /\ res' = VecGet(inner, index)
    /\ op' = "get_mut"
    /\ arg' = index
    /\ val' = DefaultValue
    /\ scen' = NoScen
    /\ UNCHANGED <<inner, pc, raw>>

\* pub fn expand_get_mut(&mut self, index: usize) -> &mut T
ExpandGetMut(index) ==
    /\ pc = "live"
    /\ old' = inner
    /\ inner' = Expanded(inner, index)
    /\ LET r == VecGet(inner', index)
       IN  IF r.kind = "None"
             THEN /\ res' = Panic          \* .unwrap() on None
                  /\ pc' = "panicked"
             ELSE /\ res' = r
                  /\ pc' = pc
    /\ op' = "expand_get_mut"
    /\ arg' = index
    /\ val' = DefaultValue
    /\ scen' = IF scen.stage = 0
                 THEN [stage |-> 1, i |-> index, v |-> DefaultValue]
                 ELSE IF scen.stage = 3 /\ index < scen.i
                        THEN [scen EXCEPT !.stage = 4]
                        ELSE NoScen
    /\ UNCHANGED raw

\* *r = value, r being the &mut T the last get_mut / expand_get_mut returned
WriteRef(value) ==
    /\ pc = "live"
    /\ op \in {"get_mut", "expand_get_mut"}
    /\ res.kind = "Some"
    /\ old' = inner
    /\ inner' = [inner EXCEPT ![res.idx + 1] = value]
    /\ op' = "write"
    /\ arg' = res.idx
    /\ val' = value
    /\ res' = Unit
    /\ scen' = IF scen.stage = 1
                 THEN [scen EXCEPT !.stage = 2, !.v = value]
                 ELSE NoScen
    /\ UNCHANGED <<pc, raw>>

\* pub fn raw_vec(self) -> Vec<T>
RawVecOp ==
    /\ pc = "live"
    /\ old' = inner
    /\ raw' = RawVec(inner)
    /\ pc' = "consumed"
    /\ op' = "raw_vec"
    /\ arg' = 0
    /\ val' = DefaultValue
    /\ res' = Unit
    /\ scen' = NoScen
    /\ UNCHANGED inner

Next ==
    \/ \E value \in Values : Push(value)
    \/ \E index \in Indices : Get(index)
    \/ \E index \in Indices : GetMut(index)
    \/ \E index \in Indices : ExpandGetMut(index)
    \/ \E value \in Values : WriteRef(value)
    \/ RawVecOp

Spec == Init /\ [][Next]_vars

TypeOK ==
    /\ inner \in Seq(Values)
    /\ pc \in {"live", "panicked", "consumed"}
    /\ op \in {"new", "push", "get", "get_mut", "expand_get_mut", "write", "raw_vec"}
    /\ arg \in Indices
    /\ val \in Values

\* ---- properties ---------------------------------------------------------------
\* every position of v in [from, to) holds the default value
AllDefault(v, from, to) ==
    \A k \in from..(to - 1) : k < Len(v) /\ v[k + 1] = DefaultValue

\* v and w agree on every position in [0, n)
SamePrefix(v, w, n) ==
    /\ Len(v) >= n
    /\ Len(w) >= n
    /\ \A k \in 1..n : v[k] = w[k]

\* C1: expand_get_mut(index) never fails for any index: it returns a reference
\* to a real slot of storage and afterwards length > index.
C1_ExpandNeverFails ==
    op = "expand_get_mut" =>
        /\ pc # "panicked"
        /\ res.kind = "Some"
        /\ res.idx = arg
        /\ Len(inner) > arg
        /\ res.val = inner[arg + 1]

\* C2 (P4): with index >= old length, expand_get_mut(index) leaves
\* length = index + 1, positions [old_length, index] default, positions
\* [0, old_length) unchanged, and returns the element at index.
C2_GrowsExactlyEnough ==
    (op = "expand_get_mut" /\ arg >= Len(old)) =>
        /\ Len(inner) = arg + 1
        /\ AllDefault(inner, Len(old), arg + 1)
        /\ SamePrefix(inner, old, Len(old))
        /\ res = Some(arg, DefaultValue)

\* C3: with index = old length (one past the end, expand_get_mut(0) on a new
\* buffer included), exactly one default element is appended and a reference
\* to it is returned.
C3_BoundaryAppendsOne ==
    (op = "expand_get_mut" /\ arg = Len(old)) =>
        /\ inner = Append(old, DefaultValue)
        /\ res.kind = "Some"
        /\ res.idx = Len(old)

\* C4 (P3): with index < old length, expand_get_mut(index) leaves storage
\* unchanged and returns the pre-existing element at index.
C4_WithinBoundsNoChange ==
    (op = "expand_get_mut" /\ arg < Len(old)) =>
        /\ inner = old
        /\ pc = "live"
        /\ res = Some(arg, old[arg + 1])

C4_Witness ==
    /\ op = "expand_get_mut"
    /\ Len(old) >= 2
    /\ arg = Len(old) - 1
    /\ old[arg + 1] # DefaultValue
    /\ res.kind = "Some"

\* C5: from an empty buffer, expand_get_mut(i), then a write of v through the
\* reference, then get(i) returns v with positions [0, i) still default; a
\* following expand_get_mut(j), j < i, keeps length i + 1 and returns the
\* default element at j.
C5_WriteThroughScenario ==
    /\ scen.stage = 1 =>
           /\ res.kind = "Some"
           /\ res.idx = scen.i
           /\ Len(inner) = scen.i + 1
    /\ scen.stage = 3 =>
           /\ res = Some(scen.i, scen.v)
           /\ AllDefault(inner, 0, scen.i)
    /\ scen.stage = 4 =>
           /\ Len(inner) = scen.i + 1
           /\ res = Some(arg, DefaultValue)

\* C6 (P1): get(i) and get_mut(i) return None for i >= length and the stored
\* element for i < length, without faulting and without changing storage.
C6_FixedAccessBounds ==
    op \in {"get", "get_mut"} =>
        /\ pc = "live"
        /\ inner = old
        /\ (arg >= Len(old) => res.kind = "None")
        /\ (arg < Len(old) => res.kind = "Some" /\ res.idx = arg /\ res.val = old[arg + 1])

C6_Witness ==
    /\ op = "get_mut"
    /\ Len(inner) >= 1
    /\ arg = Len(inner)
    /\ res.kind = "None"

\* C7 (P2): push(v) increases length by exactly 1, get(old_length) then
\* returns v, and positions [0, old_length) are unchanged.
C7_PushAppends ==
    op = "push" =>
        /\ Len(inner) = Len(old) + 1
        /\ inner[Len(old) + 1] = val
        /\ VecGet(inner, Len(old)) = Some(Len(old), val)
        /\ SamePrefix(inner, old, Len(old))

C7_Witness ==
    /\ op = "push"
    /\ Len(old) >= 2
    /\ val # DefaultValue
    /\ old[1] # val

\* C8 (P5): expand_get_mut(index) twice in a row, for any index, yields a
\* reference to the same element both times and the second call changes
\* neither the length nor the contents.
C8_IdempotentReaccess ==
    [][op' = "expand_get_mut" =>
           /\ res'.kind = "Some"
           /\ res'.idx = arg'
           /\ (op = "expand_get_mut" /\ arg = arg') =>
                  (inner' = inner /\ res' = res)]_vars

\* C9 (P6): raw_vec returns a sequence of the buffer's length whose element at
\* each position i is what get(i) returned just before the extraction.
C9_RawVecPreserves ==
    op = "raw_vec" =>
        /\ pc = "consumed"
        /\ Len(raw) = Len(old)
        /\ \A i \in 0..(Len(old) - 1) : VecGet(old, i) = Some(i, raw[i + 1])

C9_Witness ==
    /\ op = "raw_vec"
    /\ Len(raw) >= 3
    /\ raw[1] # raw[2]
    /\ raw[2] # raw[3]

\* one step keeps or grows the length, and grows it only by a push (by one) or
\* by an expand_get_mut whose index is at or beyond the length
LengthStep ==
    /\ Len(inner') >= Len(inner)
    /\ Len(inner') # Len(inner) =>
           \/ op' = "push" /\ Len(inner') = Len(inner) + 1
           \/ op' = "expand_get_mut" /\ arg' >= Len(inner)

\* C10: the buffer starts with length 0 and no step of push, get, get_mut or
\* expand_get_mut decreases the length; it changes only through push (by
\* exactly 1) or through expand_get_mut with an index at or beyond the length.
C10_LengthMonotone ==
    /\ Len(inner) = 0
    /\ [][LengthStep]_vars

C10_Witness ==
    /\ op = "expand_get_mut"
    /\ Len(old) >= 1
    /\ Len(inner) > Len(old) + 1

====
